---- MODULE Spec2Model ----
(***************************************************************************)
(* Model of the access-control boundary of mcp-cmdex: the path sandbox     *)
(* (validatePath), the policy store (readConfig), the command gate        *)
(* (isCommandAllowed / executeCommand / defaultExecuteCommand) and the     *)
(* handlers of the file and directory tools.                               *)
(*                                                                         *)
(* Strings are sequences of one-character strings, so that                 *)
(* String.prototype.startsWith, includes, trim and split are computed on   *)
(* characters exactly as the code computes them.  Paths follow the POSIX   *)
(* flavour of @std/path; the allowed directories of a policy are written   *)
(* in normal form, without a trailing separator.                           *)
(***************************************************************************)
EXTENDS Integers, Sequences, FiniteSets, TLC

VARIABLES fs, configFile, isWindows, last, prev, reader

vars == <<fs, configFile, isWindows, last, prev, reader>>

(***************************************************************************)
(* Bounds                                                                  *)
(***************************************************************************)
\* maximal number of symbolic links followed by one realPath call (ELOOP)
MaxLinkHops == 2
\* maximal number of explicit arguments of one execute_command request
MaxArgs == 1
\* maximal length of the file read_file selects lines of, in characters
MaxContent == 4
\* maximal line number written in a range of read_file
MaxIndex == 2
\* maximal number of lines of the input of the reader
MaxLines == 3
\* maximal length of a chunk of the input stream, in characters
MaxChunk == 3

(***************************************************************************)
(* Strings                                                                 *)
(***************************************************************************)
SEP == "/"

Last(s) == s[Len(s)]

Front(s) == SubSeq(s, 1, Len(s) - 1)

\* String.prototype.startsWith
StartsWith(s, p) == Len(p) <= Len(s) /\ SubSeq(s, 1, Len(p)) = p

\* String.prototype.includes for a single character
Includes(s, c) == \E i \in 1..Len(s) : s[i] = c

\* index of the first character of s that belongs to cs, 0 if there is none
RECURSIVE FirstIn(_, _, _)
FirstIn(s, cs, i) ==
    IF i > Len(s) THEN 0
    ELSE IF s[i] \in cs THEN i
    ELSE FirstIn(s, cs, i + 1)

\* String.prototype.split on a single separator character: empty segments
\* are kept
RECURSIVE SplitOn(_, _)
SplitOn(s, c) ==
    LET i == FirstIn(s, {c}, 1) IN
    IF i = 0 THEN <<s>>
    ELSE <<SubSeq(s, 1, i - 1)>> \o SplitOn(SubSeq(s, i + 1, Len(s)), c)

\* Array.prototype.join
RECURSIVE JoinWith(_, _)
JoinWith(parts, c) ==
    IF Len(parts) = 0 THEN <<>>
    ELSE IF Len(parts) = 1 THEN parts[1]
    ELSE parts[1] \o <<c>> \o JoinWith(Tail(parts), c)

(***************************************************************************)
(* @std/path (POSIX)                                                       *)
(***************************************************************************)
DOT == <<".">>

DOTDOT == <<".", ".">>

isAbsolute(p) == Len(p) > 0 /\ p[1] = SEP

\* normalizeString: resolves "." and ".." segments and drops empty ones
RECURSIVE normalizeSegs(_, _, _)
normalizeSegs(segs, res, allowAboveRoot) ==
    IF Len(segs) = 0 THEN res
    ELSE LET g == Head(segs) IN
         IF g = <<>> \/ g = DOT
         THEN normalizeSegs(Tail(segs), res, allowAboveRoot)
         ELSE IF g = DOTDOT
         THEN IF Len(res) > 0 /\ Last(res) # DOTDOT
              THEN normalizeSegs(Tail(segs), Front(res), allowAboveRoot)
              ELSE IF allowAboveRoot
              THEN normalizeSegs(Tail(segs), Append(res, g), allowAboveRoot)
              ELSE normalizeSegs(Tail(segs), res, allowAboveRoot)
         ELSE normalizeSegs(Tail(segs), Append(res, g), allowAboveRoot)

normalizeString(p, allowAboveRoot) ==
    JoinWith(normalizeSegs(SplitOn(p, SEP), <<>>, allowAboveRoot), SEP)

\* path.normalize: a trailing separator is kept
normalize(p) ==
    IF Len(p) = 0 THEN DOT
    ELSE LET abs      == isAbsolute(p)
             trailing == Last(p) = SEP
             body     == normalizeString(p, ~abs)
             body1    == IF Len(body) = 0 /\ ~abs THEN DOT ELSE body
             body2    == IF Len(body1) > 0 /\ trailing
                         THEN Append(body1, SEP) ELSE body1
         IN IF abs THEN <<SEP>> \o body2 ELSE body2

\* path.resolve(cwd, p) for an absolute cwd: normalized, no trailing separator
resolve(cwd, p) ==
    IF isAbsolute(p) THEN <<SEP>> \o normalizeString(p, FALSE)
    ELSE <<SEP>> \o normalizeString(cwd \o <<SEP>> \o p, FALSE)

\* stripTrailingSeparators: "/" itself is kept
RECURSIVE stripTrailingSeparators(_)
stripTrailingSeparators(s) ==
    IF Len(s) > 1 /\ Last(s) = SEP THEN stripTrailingSeparators(Front(s))
    ELSE s

\* the scan of path.dirname: the index of the separator that ends the
\* directory part, -1 if there is none
RECURSIVE dirnameEnd(_, _, _)
dirnameEnd(p, i, matchedNonSeparator) ==
    IF i < 2 THEN -1
    ELSE IF p[i] = SEP
    THEN IF matchedNonSeparator THEN i
         ELSE dirnameEnd(p, i - 1, matchedNonSeparator)
    ELSE dirnameEnd(p, i - 1, TRUE)

\* path.dirname
dirname(p) ==
    IF Len(p) = 0 THEN DOT
    ELSE LET end == dirnameEnd(p, Len(p), FALSE) IN
         IF end = -1 THEN (IF p[1] = SEP THEN <<SEP>> ELSE DOT)
         ELSE stripTrailingSeparators(SubSeq(p, 1, end - 1))

(***************************************************************************)
(* The file system seen by Deno.realPath                                   *)
(***************************************************************************)
\* a path string: "/" followed by the components joined by "/"
PathOf(comps) == <<SEP>> \o JoinWith(comps, SEP)

P_a == <<"/", "a">>
P_ab == <<"/", "a", "/", "b">>
P_abc == <<"/", "a", "/", "b", "c">>
P_ad == <<"/", "a", "/", "d">>
P_e == <<"/", "e">>

NoEntry == [kind |-> "none", target |-> <<>>]
DirEntry == [kind |-> "dir", target |-> <<>>]
FileEntry == [kind |-> "file", target |-> <<>>]
LinkTo(t) == [kind |-> "link", target |-> t]

\* the part of the tree that never changes: /a/b and /a/d are the candidate
\* allowed directories, /a/bc shares a string prefix with /a/b, /e is
\* outside of both
StaticTree ==
    (<< <<"a">> >> :> DirEntry)
    @@ (<< <<"a">>, <<"b">> >> :> DirEntry)
    @@ (<< <<"a">>, <<"b", "c">> >> :> DirEntry)
    @@ (<< <<"a">>, <<"b", "c">>, <<"g">> >> :> FileEntry)
    @@ (<< <<"a">>, <<"d">> >> :> DirEntry)
    @@ (<< <<"a">>, <<"d">>, <<"g">> >> :> FileEntry)
    @@ (<< <<"e">> >> :> DirEntry)
    @@ (<< <<"e">>, <<"s">> >> :> FileEntry)

\* the entries another process may create, replace or remove
N_abf == << <<"a">>, <<"b">>, <<"f">> >>
N_abs == << <<"a">>, <<"b">>, <<"s">> >>

MutableEntries ==
    (N_abf :> {NoEntry, FileEntry, DirEntry,
               LinkTo(P_e \o <<"/", "s">>),
               LinkTo(P_ad \o <<"/", "g">>),
               LinkTo(P_abc \o <<"/", "g">>)})
    @@ (N_abs :> {NoEntry, DirEntry, FileEntry, LinkTo(P_e), LinkTo(P_ad)})

FsEntry(f, node) ==
    IF node = <<>> THEN DirEntry
    ELSE IF node \in DOMAIN f THEN f[node]
    ELSE IF node \in DOMAIN StaticTree THEN StaticTree[node]
    ELSE NoEntry

RealFail == [ok |-> FALSE, comps |-> <<>>]

\* realpath(3): walks the segments from cur, following symbolic links;
\* fails on a missing entry, on a segment below a non-directory and after
\* more than fuel links
RECURSIVE realWalk(_, _, _, _)
realWalk(f, cur, segs, fuel) ==
    IF Len(segs) = 0 THEN [ok |-> TRUE, comps |-> cur]
    ELSE IF FsEntry(f, cur).kind # "dir" THEN RealFail
    ELSE LET g == Head(segs) IN
         IF g = <<>> \/ g = DOT THEN realWalk(f, cur, Tail(segs), fuel)
         ELSE IF g = DOTDOT
         THEN realWalk(f, IF Len(cur) = 0 THEN cur ELSE Front(cur),
                       Tail(segs), fuel)
         ELSE LET n == Append(cur, g)
                  e == FsEntry(f, n)
              IN IF e.kind = "none" THEN RealFail
                 ELSE IF e.kind = "link"
                 THEN IF fuel = 0 THEN RealFail
                      ELSE LET t == realWalk(f,
                                      IF isAbsolute(e.target) THEN <<>> ELSE cur,
                                      SplitOn(e.target, SEP), fuel - 1)
                           IN IF ~t.ok THEN RealFail
                              ELSE realWalk(f, t.comps, Tail(segs), fuel)
                 ELSE realWalk(f, n, Tail(segs), fuel)

\* Deno.realPath of an absolute path: the canonical path, or a thrown error
realPath(f, p) ==
    LET r == realWalk(f, <<>>, SplitOn(p, SEP), MaxLinkHops) IN
    IF r.ok THEN [threw |-> FALSE, path |-> PathOf(r.comps)]
    ELSE [threw |-> TRUE, path |-> <<>>]

(***************************************************************************)
(* The policy store                                                        *)
(***************************************************************************)
C_ls == <<"l", "s">>
C_cat == <<"c", "a", "t">>
C_grep == <<"g", "r", "e", "p">>
C_echo == <<"e", "c", "h", "o">>
C_su == <<"s", "u">>
C_dd == <<"d", "d">>
C_nc == <<"n", "c">>

\* what readConfig returns when the file does not exist
DefaultConfig ==
    [allowedDirectories |-> <<>>, hasAllowedCommands |-> FALSE,
     allowedCommands |-> <<>>]

DirChoices == {<<>>, <<P_ab>>, <<P_ab, P_ad>>}

\* allowedCommands as the sequence of its (category, commands) entries
CommandChoices ==
    {<<>>,
     <<[category |-> "custom", commands |-> <<C_echo>>]>>,
     <<[category |-> "custom", commands |-> <<C_su, C_echo, C_su>>],
       [category |-> "extra", commands |-> <<C_ls, C_su, C_dd>>]>>}

Configs ==
    {[allowedDirectories |-> d, hasAllowedCommands |-> TRUE,
      allowedCommands |-> c] : d \in DirChoices, c \in CommandChoices}
    \cup {[allowedDirectories |-> d, hasAllowedCommands |-> FALSE,
           allowedCommands |-> <<>>] : d \in DirChoices}

\* the states of ~/.mcp-cmdex.toml
ConfigFiles ==
    {[state |-> "absent", config |-> DefaultConfig],
     [state |-> "unreadable", config |-> DefaultConfig],
     [state |-> "malformed", config |-> DefaultConfig]}
    \cup {[state |-> "ok", config |-> c] : c \in Configs}

\* a variant without the NotFound case: a missing file is an error
readConfigStrict(cf) ==
    IF cf.state = "ok" THEN [threw |-> FALSE, config |-> cf.config]
    ELSE [threw |-> TRUE, config |-> DefaultConfig]

\* a variant that treats every failure like a missing file
readConfigSwallowing(cf) ==
    IF cf.state = "ok" THEN [threw |-> FALSE, config |-> cf.config]
    ELSE [threw |-> FALSE, config |-> DefaultConfig]

\* a variant that keeps the policy of the request answered before
readConfigCached(cf) ==
    LET kept == IF prev.op = "none" THEN cf ELSE prev.configFile IN
    IF kept.state = "ok" THEN [threw |-> FALSE, config |-> kept.config]
    ELSE IF kept.state = "absent" THEN [threw |-> FALSE, config |-> DefaultConfig]
    ELSE [threw |-> TRUE, config |-> DefaultConfig]

\* readConfig: NotFound yields the default, any other error is rethrown
readConfig(cf) ==
    IF cf.state = "ok" THEN [threw |-> FALSE, config |-> cf.config]
    ELSE IF cf.state = "absent" THEN [threw |-> FALSE, config |-> DefaultConfig]
    ELSE [threw |-> TRUE, config |-> DefaultConfig]

(***************************************************************************)
(* validatePath                                                            *)
(***************************************************************************)
Cwd == P_a

\* config.allowedDirectories.some((dir) => s.startsWith(dir))
isInAllowedDirectories(dirs, s) ==
    \E i \in 1..Len(dirs) : StartsWith(s, dirs[i])

\* path.isAbsolute(requestedPath) ? requestedPath
\*     : path.resolve(Deno.cwd(), requestedPath)
absoluteOf(requestedPath) ==
    IF isAbsolute(requestedPath) THEN requestedPath
    ELSE resolve(Cwd, requestedPath)

Approved(p) == [kind |-> "ok", path |-> p, error |-> "none"]
Denied(e) == [kind |-> "error", path |-> <<>>, error |-> e]

\* the catch of the inner try: whatever was thrown in it, the error
\* reported is "parent directory does not exist"
parentCatch(thrown) == "parentDirectoryMissing"

\* a variant that returns the normalized path of the new leaf
validateParentNormalizing(f, dirs, absolute) ==
    LET realParent == realPath(f, dirname(absolute)) IN
    IF realParent.threw THEN Denied(parentCatch("realPathFailed"))
    ELSE IF ~isInAllowedDirectories(dirs, normalize(realParent.path))
    THEN Denied(parentCatch("parentOutsideAllowed"))
    ELSE Approved(normalize(absolute))

\* the catch (_error) branch: the check of the parent directory
validateParent(f, dirs, absolute) ==
    LET parentDir == dirname(absolute)
        realParent == realPath(f, parentDir)
    IN IF realParent.threw THEN Denied(parentCatch("realPathFailed"))
       ELSE IF ~isInAllowedDirectories(dirs, normalize(realParent.path))
       THEN Denied(parentCatch("parentOutsideAllowed"))
       ELSE Approved(absolute)

\* a variant that returns the requested path instead of the resolved one
validateRealUnresolved(f, dirs, absolute) ==
    LET real == realPath(f, absolute) IN
    IF real.threw THEN Denied("realPathFailed")
    ELSE IF ~isInAllowedDirectories(dirs, normalize(real.path))
    THEN Denied("symlinkOutsideAllowed")
    ELSE Approved(absolute)

\* the first try block: the returned path, or the error thrown in it
validateReal(f, dirs, absolute) ==
    LET real == realPath(f, absolute) IN
    IF real.threw THEN Denied("realPathFailed")
    ELSE IF ~isInAllowedDirectories(dirs, normalize(real.path))
    THEN Denied("symlinkOutsideAllowed")
    ELSE Approved(real.path)

validatePath(cf, f, requestedPath) ==
    LET rc == readConfig(cf) IN
    IF rc.threw THEN Denied("configReadFailed")
    ELSE LET dirs == rc.config.allowedDirectories
             absolute == absoluteOf(requestedPath)
             normalized == normalize(absolute)
         IN IF ~isInAllowedDirectories(dirs, normalized)
            THEN Denied("outsideAllowed")
            ELSE LET r == validateReal(f, dirs, absolute) IN
                 IF r.kind = "ok" THEN r
                 ELSE validateParent(f, dirs, absolute)

(***************************************************************************)
(* The command gate and the runner                                         *)
(***************************************************************************)
\* ALLOWED_COMMANDS: three of the names of the compiled-in set; none of its
\* names holds a whitespace character
ALLOWED_COMMANDS == {C_ls, C_cat, C_grep}

\* the value of parts[0] when parts is empty
Undefined == <<"undefined">>

\* the characters \s and String.prototype.trim treat as white space
WhiteSpace == {" ", "\t"}

RECURSIVE trimStart(_)
trimStart(s) ==
    IF Len(s) > 0 /\ Head(s) \in WhiteSpace THEN trimStart(Tail(s)) ELSE s

RECURSIVE trimEnd(_)
trimEnd(s) ==
    IF Len(s) > 0 /\ Last(s) \in WhiteSpace THEN trimEnd(Front(s)) ELSE s

\* String.prototype.trim
trim(s) == trimEnd(trimStart(s))

\* String.prototype.split(/\s+/): the pieces between the runs of white space
RECURSIVE splitWhiteSpace(_)
splitWhiteSpace(s) ==
    LET i == FirstIn(s, WhiteSpace, 1) IN
    IF i = 0 THEN <<s>>
    ELSE <<SubSeq(s, 1, i - 1)>>
         \o splitWhiteSpace(trimStart(SubSeq(s, i, Len(s))))

\* Array.prototype.filter(part => part.length > 0)
filterNonEmpty(parts) == SelectSeq(parts, LAMBDA part : Len(part) > 0)

\* Array.prototype.includes
includes(commands, command) ==
    \E i \in 1..Len(commands) : commands[i] = command

\* Object.values(config.allowedCommands || {}).some(commands =>
\*     commands.includes(command))
inConfigCommandsFirstCategory(config, command) ==
    LET categories == IF config.hasAllowedCommands
                      THEN config.allowedCommands ELSE <<>>
    IN Len(categories) > 0 /\ includes(categories[1].commands, command)

inConfigCommands(config, command) ==
    LET categories == IF config.hasAllowedCommands
                      THEN config.allowedCommands ELSE <<>>
    IN \E i \in 1..Len(categories) :
           includes(categories[i].commands, command)

\* a variant whose catch lets the command through
isCommandAllowedFailOpen(command, allowedCommands, cf) ==
    IF command \in allowedCommands THEN TRUE
    ELSE LET rc == readConfig(cf) IN
         IF rc.threw THEN TRUE
         ELSE inConfigCommands(rc.config, command)

\* a variant that reads the policy before it looks at the compiled-in set
isCommandAllowedConfigFirst(command, allowedCommands, cf) ==
    LET rc == readConfig(cf) IN
    IF rc.threw THEN FALSE
    ELSE command \in allowedCommands \/ inConfigCommands(rc.config, command)

\* a variant that lets a missing or empty command through
isCommandAllowedFalsyPasses(command, allowedCommands, cf) ==
    IF command = Undefined \/ command = <<>> THEN TRUE
    ELSE IF command \in allowedCommands THEN TRUE
    ELSE IF readConfig(cf).threw THEN FALSE
    ELSE inConfigCommands(readConfig(cf).config, command)

isCommandAllowed(command, allowedCommands, cf) ==
    IF command \in allowedCommands THEN TRUE
    ELSE LET rc == readConfig(cf) IN
         IF rc.threw THEN FALSE
         ELSE inConfigCommands(rc.config, command)

\* a variant that forgets parts.slice(1): the command is also an argument
parseCommandKeepingCommand(commandName, args) ==
    IF Includes(commandName, " ")
    THEN LET parts == filterNonEmpty(splitWhiteSpace(trim(commandName))) IN
         [actualCommand |-> IF Len(parts) = 0 THEN Undefined ELSE parts[1],
          actualArgs |-> parts \o args]
    ELSE [actualCommand |-> commandName, actualArgs |-> args]

\* a variant that puts the explicit arguments first
parseCommandArgsFirst(commandName, args) ==
    IF Includes(commandName, " ")
    THEN LET parts == filterNonEmpty(splitWhiteSpace(trim(commandName))) IN
         [actualCommand |-> IF Len(parts) = 0 THEN Undefined ELSE parts[1],
          actualArgs |-> args \o (IF Len(parts) = 0 THEN <<>> ELSE Tail(parts))]
    ELSE [actualCommand |-> commandName, actualArgs |-> args]

\* a variant that parses every name with white space in it, not only those
\* with a space
parseCommandOnWhiteSpace(commandName, args) ==
    IF \E i \in 1..Len(commandName) : commandName[i] \in WhiteSpace
    THEN LET parts == filterNonEmpty(splitWhiteSpace(trim(commandName))) IN
         [actualCommand |-> IF Len(parts) = 0 THEN Undefined ELSE parts[1],
          actualArgs |-> (IF Len(parts) = 0 THEN <<>> ELSE Tail(parts)) \o args]
    ELSE [actualCommand |-> commandName, actualArgs |-> args]

\* the parsing of executeCommand: the effective command and its arguments
parseCommand(commandName, args) ==
    IF Includes(commandName, " ")
    THEN LET parts == filterNonEmpty(splitWhiteSpace(trim(commandName))) IN
         [actualCommand |-> IF Len(parts) = 0 THEN Undefined ELSE parts[1],
          actualArgs |-> (IF Len(parts) = 0 THEN <<>> ELSE Tail(parts)) \o args]
    ELSE [actualCommand |-> commandName, actualArgs |-> args]

\* defaultExecuteCommand: the child process that Deno.Command describes
CMD_EXE == <<"c", "m", "d", ".", "e", "x", "e">>

SLASH_C == <<"/", "c">>

\* a variant that goes through the shell on every platform
defaultExecuteCommandAlwaysShell(command, args, windows) ==
    [image |-> CMD_EXE, args |-> <<SLASH_C, command>> \o args]

defaultExecuteCommand(command, args, windows) ==
    [image |-> IF windows THEN CMD_EXE ELSE command,
     args |-> IF windows THEN <<SLASH_C, command>> \o args ELSE args]

\* what process.output() does with the child: it resolves, also for a
\* non-zero exit status, unless the process cannot be spawned
ProcessOutcomes == {"exit0", "exitNonZero", "notFound", "permissionDenied"}

\* a variant in which a non-zero exit status rejects
outputThrowsOnNonZero(outcome) == outcome # "exit0"

outputThrows(outcome) == outcome \in {"notFound", "permissionDenied"}

\* what executeCommand leaves behind: checked is the token given to
\* isCommandAllowed, invoked the calls of executeCommandFn, launched the
\* child processes they start, exit what became of the child
Rejected(checked) ==
    [result |-> "McpError", code |-> "InvalidRequest", checked |-> checked,
     invoked |-> <<>>, launched |-> <<>>, exit |-> "none"]

Executed(checked, command, args, windows, outcome) ==
    [result |-> IF outputThrows(outcome) THEN "McpError" ELSE "ok",
     code |-> IF outputThrows(outcome) THEN "InternalError" ELSE "none",
     checked |-> checked,
     invoked |-> <<[command |-> command, args |-> args,
                    isWindows |-> windows]>>,
     launched |-> <<defaultExecuteCommand(command, args, windows)>>,
     exit |-> outcome]

\* a variant that runs the command before it looks at the answer of the
\* check
executeCommandRunFirst(commandName, args, allowedCommands, cf, windows, outcome) ==
    LET parsed == parseCommand(commandName, args)
        isAllowed == isCommandAllowed(parsed.actualCommand, allowedCommands, cf)
        ran == Executed(parsed.actualCommand, parsed.actualCommand,
                        parsed.actualArgs, windows, outcome)
    IN IF ~isAllowed
       THEN [ran EXCEPT !.result = "McpError", !.code = "InvalidRequest"]
       ELSE ran

\* a variant that hands the caller's string to the runner
executeCommandRawToRunner(commandName, args, allowedCommands, cf, windows, outcome) ==
    LET parsed == parseCommand(commandName, args)
        isAllowed == isCommandAllowed(parsed.actualCommand, allowedCommands, cf)
    IN IF ~isAllowed THEN Rejected(parsed.actualCommand)
       ELSE Executed(parsed.actualCommand, commandName, parsed.actualArgs,
                     windows, outcome)

\* executeCommand with the default readConfigFn and executeCommandFn
executeCommand(commandName, args, allowedCommands, cf, windows, outcome) ==
    LET parsed == parseCommand(commandName, args)
        isAllowed == isCommandAllowed(parsed.actualCommand, allowedCommands, cf)
    IN IF ~isAllowed THEN Rejected(parsed.actualCommand)
       ELSE Executed(parsed.actualCommand, parsed.actualCommand,
                     parsed.actualArgs, windows, outcome)

\* the execute_command case of the single-file server: the check and the
\* launch are written out in the handler, on the name as it was sent
inlineIsAllowed(commandName, cf) ==
    IF commandName \in ALLOWED_COMMANDS THEN TRUE
    ELSE IF readConfig(cf).threw THEN FALSE
    ELSE inConfigCommands(readConfig(cf).config, commandName)

inlineExecuteCommand(commandName, args, cf, windows, outcome) ==
    IF ~inlineIsAllowed(commandName, cf)
    THEN [result |-> "McpError", code |-> "InvalidRequest",
          checked |-> commandName, launched |-> <<>>, exit |-> "none"]
    ELSE [result |-> IF outputThrows(outcome) THEN "McpError" ELSE "ok",
          code |-> IF outputThrows(outcome) THEN "InternalError" ELSE "none",
          checked |-> commandName,
          launched |-> <<[image |-> IF windows THEN CMD_EXE ELSE commandName,
                          args |-> IF windows
                                   THEN <<SLASH_C, commandName>> \o args
                                   ELSE args]>>,
          exit |-> outcome]

(***************************************************************************)
(* The file and directory tools.  Of the tree only the two entries of fs   *)
(* can be created, replaced or removed: a call that would change another   *)
(* entry fails.  The contents of files are not part of the state.          *)
(***************************************************************************)
SinglePathTools ==
    {"read_file", "write_file", "append_file", "list_directory",
     "create_directory", "remove_directory", "delete_file", "file_exists"}

TwoPathTools == {"rename_directory", "copy_file", "move_file"}

\* the entry a system call on the absolute path p works on: the parent is
\* resolved, and the last name as well if the call follows links
osTarget(f, p, follow) ==
    LET segs == SplitOn(p, SEP)
        parent == realWalk(f, <<>>, Front(segs), MaxLinkHops)
    IN IF ~parent.ok \/ FsEntry(f, parent.comps).kind # "dir"
       THEN [ok |-> FALSE, node |-> <<>>]
       ELSE IF follow /\ FsEntry(f, Append(parent.comps, Last(segs))).kind = "link"
       THEN [ok |-> realPath(f, p).threw = FALSE,
             node |-> realWalk(f, <<>>, segs, MaxLinkHops).comps]
       ELSE [ok |-> TRUE, node |-> Append(parent.comps, Last(segs))]

entryAt(f, t) == IF t.ok THEN FsEntry(f, t.node) ELSE NoEntry

\* t is one of the entries that can be created, replaced or removed
changeable(f, t) == t.ok /\ t.node \in DOMAIN f

callDone(f) == [done |-> TRUE, fs |-> f]

callFailed(f) == [done |-> FALSE, fs |-> f]

\* what a call does to the tree: t and e are the target of its first path
\* and the entry there, d and de those of its last path
denoEffect(f, name, recursive, t, e, d, de) ==
    CASE name \in {"readTextFile", "readFile"} ->
             IF e.kind = "file" THEN callDone(f) ELSE callFailed(f)
      [] name = "readDir" ->
             IF e.kind = "dir" THEN callDone(f) ELSE callFailed(f)
      [] name = "stat" ->
             IF e.kind # "none" THEN callDone(f) ELSE callFailed(f)
      [] name \in {"writeTextFile", "writeFile"} ->
             IF ~changeable(f, t) THEN callFailed(f)
             ELSE IF e.kind = "none"
             THEN callDone([f EXCEPT ![t.node] = FileEntry])
             ELSE IF e.kind = "file" THEN callDone(f) ELSE callFailed(f)
      [] name = "mkdir" ->
             IF e.kind = "dir"
             THEN (IF recursive THEN callDone(f) ELSE callFailed(f))
             ELSE IF changeable(f, t) /\ e.kind = "none"
             THEN callDone([f EXCEPT ![t.node] = DirEntry])
             ELSE callFailed(f)
      [] name = "remove" ->
             IF changeable(f, t) /\ e.kind # "none"
             THEN callDone([f EXCEPT ![t.node] = NoEntry])
             ELSE callFailed(f)
      [] name = "rename" ->
             IF ~changeable(f, t) \/ ~changeable(f, d) \/ e.kind = "none"
             THEN callFailed(f)
             ELSE IF t.node = d.node THEN callDone(f)
             ELSE IF e.kind = "dir" /\ de.kind \notin {"none", "dir"}
             THEN callFailed(f)
             ELSE IF e.kind # "dir" /\ de.kind = "dir" THEN callFailed(f)
             ELSE callDone([f EXCEPT ![t.node] = NoEntry, ![d.node] = e])

\* one call of the Deno file API: whether it succeeded and what the tree is
\* afterwards; remove and rename work on a link itself, the others follow it
denoCall(f, name, paths, recursive) ==
    denoEffect(f, name, recursive,
               osTarget(f, paths[1], name \notin {"remove", "rename"}),
               entryAt(f, osTarget(f, paths[1], name \notin {"remove", "rename"})),
               osTarget(f, paths[Len(paths)], FALSE),
               entryAt(f, osTarget(f, paths[Len(paths)], FALSE)))

\* the calls of a handler, in order, on the paths validatePath returned
toolCalls(tool, valid) ==
    CASE tool = "read_file" -> <<[name |-> "readTextFile", paths |-> <<valid[1]>>]>>
      [] tool \in {"write_file", "append_file"} ->
             <<[name |-> "writeTextFile", paths |-> <<valid[1]>>]>>
      [] tool = "list_directory" -> <<[name |-> "readDir", paths |-> <<valid[1]>>]>>
      [] tool = "create_directory" -> <<[name |-> "mkdir", paths |-> <<valid[1]>>]>>
      [] tool \in {"remove_directory", "delete_file"} ->
             <<[name |-> "remove", paths |-> <<valid[1]>>]>>
      [] tool = "file_exists" -> <<[name |-> "stat", paths |-> <<valid[1]>>]>>
      [] tool \in {"rename_directory", "move_file"} ->
             <<[name |-> "rename", paths |-> <<valid[1], valid[2]>>]>>
      [] tool = "copy_file" ->
             <<[name |-> "readFile", paths |-> <<valid[1]>>],
               [name |-> "writeFile", paths |-> <<valid[2]>>]>>

\* the calls are made one after the other until one fails
RECURSIVE runCalls(_, _, _, _)
RECURSIVE afterCall(_, _, _, _, _)
afterCall(f, calls, recursive, io, r) ==
    IF r.done
    THEN runCalls(r.fs, Tail(calls), recursive,
                  Append(io, [name |-> Head(calls).name,
                              paths |-> Head(calls).paths, done |-> TRUE]))
    ELSE [io |-> Append(io, [name |-> Head(calls).name,
                             paths |-> Head(calls).paths, done |-> FALSE]),
          fs |-> f, done |-> FALSE]

runCalls(f, calls, recursive, io) ==
    IF Len(calls) = 0 THEN [io |-> io, fs |-> f, done |-> TRUE]
    ELSE afterCall(f, calls, recursive, io,
                   denoCall(f, Head(calls).name, Head(calls).paths, recursive))

\* validatePath threw: the handler ends with an error and makes no call
ToolDenied(f) ==
    [result |-> "McpError", code |-> "InternalError", io |-> <<>>, fs |-> f]

\* the answer after the calls: file_exists answers a missing file with a
\* result, every other failed call is an error
toolAnswer(tool, ran) ==
    [result |-> IF ran.done \/ tool = "file_exists" THEN "ok" ELSE "McpError",
     code |-> IF ran.done \/ tool = "file_exists" THEN "none"
              ELSE "InternalError",
     io |-> ran.io, fs |-> ran.fs]

\* the handler once validatePath has answered for every path argument
afterValidation(f, tool, recursive, v) ==
    IF \E i \in 1..Len(v) : v[i].kind = "error" THEN ToolDenied(f)
    ELSE toolAnswer(tool,
                    runCalls(f, toolCalls(tool, [i \in 1..Len(v) |-> v[i].path]),
                             recursive, <<>>))

\* a variant that validates the first path only and uses the others as
\* they were given
fileToolRawDestination(cf, f, tool, paths, recursive) ==
    afterValidation(f, tool, recursive,
                    [i \in 1..Len(paths)
                        |-> IF i = 1 THEN validatePath(cf, f, paths[i])
                            ELSE Approved(absoluteOf(paths[i]))])

\* a handler of a file or directory tool: every path argument goes through
\* validatePath, then the calls are made on the returned paths
fileTool(cf, f, tool, paths, recursive) ==
    afterValidation(f, tool, recursive,
                    [i \in 1..Len(paths) |-> validatePath(cf, f, paths[i])])

(***************************************************************************)
(* open_config_file and list_allowed_commands                              *)
(***************************************************************************)
C_open == <<"o", "p", "e", "n">>
C_notepad == <<"n", "o", "t", "e", "p", "a", "d">>

\* path.join(HOME, ".mcp-cmdex.toml") with HOME = /h
getConfigFilePath ==
    <<"/", "h", "/", ".", "m", "c", "p", "-", "c", "m", "d", "e", "x",
      ".", "t", "o", "m", "l">>

\* the open_config_file handler: the processes it starts and the commands
\* it gave to isCommandAllowed
openConfigFile(windows) ==
    [launched |-> <<[image |-> IF windows THEN C_notepad ELSE C_open,
                     args |-> <<getConfigFilePath>>]>>,
     checked |-> <<>>]

\* the characters in the order of their UTF-16 code units
CodeUnits ==
    <<"\t", " ", "'", "-", ".", "/",
      "a", "b", "c", "d", "e", "f", "g", "h", "i", "j", "k", "l", "m",
      "n", "o", "p", "q", "r", "s", "t", "u", "v", "w", "x", "y", "z">>

codeUnit(c) == CHOOSE i \in 1..Len(CodeUnits) : CodeUnits[i] = c

\* a < b for strings, the order of Array.prototype.sort without a comparator
RECURSIVE precedes(_, _)
precedes(a, b) ==
    IF Len(b) = 0 THEN FALSE
    ELSE IF Len(a) = 0 THEN TRUE
    ELSE IF a[1] = b[1] THEN precedes(Tail(a), Tail(b))
    ELSE codeUnit(a[1]) < codeUnit(b[1])

RECURSIVE insertSorted(_, _)
insertSorted(sorted, x) ==
    IF Len(sorted) = 0 THEN <<x>>
    ELSE IF precedes(x, sorted[1]) THEN <<x>> \o sorted
    ELSE <<sorted[1]>> \o insertSorted(Tail(sorted), x)

\* a variant that leaves the order as it is
sortKeepingOrder(commands) == commands

\* Array.prototype.sort
RECURSIVE sort(_)
sort(commands) ==
    IF Len(commands) = 0 THEN <<>>
    ELSE insertSorted(sort(Front(commands)), Last(commands))

\* Array.from(new Set(commands)): the first occurrence of each element
RECURSIVE unique(_)
unique(commands) ==
    IF Len(commands) = 0 THEN <<>>
    ELSE LET front == unique(Front(commands)) IN
         IF \E i \in 1..Len(front) : front[i] = Last(commands) THEN front
         ELSE Append(front, Last(commands))

\* Array.from(ALLOWED_COMMANDS): the names in the order of the source
allowedCommandsArray == <<C_ls, C_cat, C_grep>>

\* Map.prototype.get(category) || []
mapGet(map, category) ==
    IF \E i \in 1..Len(map) : map[i].category = category
    THEN map[CHOOSE i \in 1..Len(map) : map[i].category = category].commands
    ELSE <<>>

\* Map.prototype.set: a known key keeps its place
mapSet(map, category, commands) ==
    IF \E i \in 1..Len(map) : map[i].category = category
    THEN [i \in 1..Len(map)
             |-> IF map[i].category = category
                 THEN [category |-> category, commands |-> commands]
                 ELSE map[i]]
    ELSE Append(map, [category |-> category, commands |-> commands])

\* the compiled-in names: none starts with "//", so all of them are put
\* under the category with the empty name
defaultCategories == mapSet(<<>>, "", allowedCommandsArray)

\* the categories of the policy are merged in, one after the other
RECURSIVE mergeCategories(_, _)
mergeCategories(map, entries) ==
    IF Len(entries) = 0 THEN map
    ELSE mergeCategories(
             mapSet(map, entries[1].category,
                    unique(mapGet(map, entries[1].category)
                           \o entries[1].commands)),
             Tail(entries))

\* commandsByCategory after the try block; a policy that cannot be loaded
\* is logged and adds nothing
commandsByCategory(rc) ==
    IF rc.threw \/ ~rc.config.hasAllowedCommands THEN defaultCategories
    ELSE mergeCategories(defaultCategories, rc.config.allowedCommands)

\* the output, category by category, before it is joined into text
listAllowedCommands(cf) ==
    [i \in 1..Len(commandsByCategory(readConfig(cf)))
        |-> [category |-> commandsByCategory(readConfig(cf))[i].category,
             commands |-> sort(unique(
                              commandsByCategory(readConfig(cf))[i].commands))]]

(***************************************************************************)
(* The range of read_file                                                  *)
(***************************************************************************)
Digits == <<"0", "1", "2", "3", "4", "5", "6", "7", "8", "9">>

isDigits(s) == \A i \in 1..Len(s) : \E k \in 1..10 : Digits[k] = s[i]

RECURSIVE decimal(_)
decimal(s) ==
    IF Len(s) = 0 THEN 0
    ELSE 10 * decimal(Front(s))
         + (CHOOSE k \in 1..10 : Digits[k] = Last(s)) - 1

\* Number(string) for strings of digits: the empty string is 0, any other
\* string is NaN
toNumber(s) ==
    IF isDigits(s) THEN [nan |-> FALSE, value |-> decimal(s)]
    ELSE [nan |-> TRUE, value |-> 0]

\* !end, for the second element of range.split(":").map(Number)
endIsFalsy(numbers) ==
    Len(numbers) < 2 \/ numbers[2].nan \/ numbers[2].value = 0

\* the start index of Array.prototype.slice: NaN counts as 0
sliceStart(number) == IF number.nan THEN 0 ELSE number.value

minimum(a, b) == IF a < b THEN a ELSE b

DefaultRange == <<"0", ":", "0">>

\* lines.slice(start) or lines.slice(start, end + 1), by !end
selectLines(lines, numbers) ==
    IF endIsFalsy(numbers)
    THEN SubSeq(lines, sliceStart(numbers[1]) + 1, Len(lines))
    ELSE SubSeq(lines, sliceStart(numbers[1]) + 1,
                minimum(numbers[2].value + 1, Len(lines)))

numbersOf(parts) == [i \in 1..Len(parts) |-> toNumber(parts[i])]

\* the text read_file returns for the content of a file and a range
selectedLines(content, rangeStr) ==
    JoinWith(selectLines(SplitOn(content, "\n"),
                         numbersOf(SplitOn(IF ~rangeStr.present
                                              \/ rangeStr.text = <<>>
                                           THEN DefaultRange
                                           ELSE rangeStr.text, ":"))),
             "\n")

(***************************************************************************)
(* The stdio JSON-RPC server.  The jsonrpc and id members of a message are *)
(* written as JSON text, "undefined" for a member that is missing.         *)
(***************************************************************************)
JSONRPC_2_0 == "\"2.0\""

INVALID_REQUEST == -32600
METHOD_NOT_FOUND == -32601
INVALID_PARAMS == -32602

HELLO == "mcp-cmdex/hello"

\* id === undefined || id === null
isNotification(id) == id \in {"undefined", "null"}

sendResult(id, result) ==
    IF isNotification(id) THEN <<>>
    ELSE <<[jsonrpc |-> JSONRPC_2_0, id |-> id, kind |-> "result",
            code |-> 0, result |-> result]>>

\* a variant that answers no request whose id is falsy
sendErrorFalsyId(id, code) ==
    IF id \in {"undefined", "null", "0", "false", "\"\""} THEN <<>>
    ELSE <<[jsonrpc |-> JSONRPC_2_0, id |-> id, kind |-> "error",
            code |-> code, result |-> "none"]>>

sendError(id, code) ==
    IF isNotification(id) THEN <<>>
    ELSE <<[jsonrpc |-> JSONRPC_2_0, id |-> id, kind |-> "error",
            code |-> code, result |-> "none"]>>

handleToolsList(id) == sendResult(id, "tools")

\* !params || !params.name: the empty name is falsy as well
handleToolExec(id, params) ==
    IF ~params.present \/ params.name \in {"undefined", ""}
    THEN sendError(id, INVALID_PARAMS)
    ELSE IF params.name = HELLO THEN sendResult(id, "Hello World")
    ELSE sendError(id, METHOD_NOT_FOUND)

\* MCPServer.handleMessage: the lines it writes to stdout
handleMessage(message) ==
    IF message.jsonrpc # JSONRPC_2_0 THEN sendError(message.id, INVALID_REQUEST)
    ELSE IF message.method = "tools/list" THEN handleToolsList(message.id)
    ELSE IF message.method = "tool/exec"
    THEN handleToolExec(message.id, message.params)
    ELSE IF message.method = "/helloworld"
    THEN sendResult(message.id, "Hello World")
    ELSE sendError(message.id, METHOD_NOT_FOUND)

(***************************************************************************)
(* JSONLinesReader                                                         *)
(***************************************************************************)
\* JSON.parse for the texts of the model: a number in decimal digits or
\* null, white space around it allowed; anything else is a SyntaxError
parseJson(text) ==
    IF trim(text) = <<"n", "u", "l", "l">>
    THEN [ok |-> TRUE, json |-> [type |-> "null", value |-> 0]]
    ELSE IF Len(trim(text)) > 0 /\ isDigits(trim(text))
              /\ (Len(trim(text)) = 1 \/ Head(trim(text)) # "0")
    THEN [ok |-> TRUE, json |-> [type |-> "number", value |-> decimal(trim(text))]]
    ELSE [ok |-> FALSE, json |-> [type |-> "none", value |-> 0]]

\* new JSONLinesReader(stream): stream holds what the stream has handed
\* over (consumed), what it still has (pending) and whether it has ended;
\* delivered lists the values the callback was called with
NewReader ==
    [buffer |-> <<>>, delivered |-> <<>>,
     consumed |-> <<>>, pending |-> <<>>, ended |-> FALSE]

\* the callback registered by MCPServer.start is handleMessage, which reads
\* message.jsonrpc: a TypeError for null
callbackThrows(json) == json.type = "null"

\* the body of `if (line.trim()) { try { ... } catch { ... } }`: the
\* callback has been called when JSON.parse returned, and what it throws is
\* caught like a SyntaxError
deliverLine(delivered, line) ==
    IF Len(trim(line)) > 0 /\ parseJson(line).ok
    THEN Append(delivered, parseJson(line).json)
    ELSE delivered

\* the while loop of onData on the buffer
RECURSIVE drainLines(_, _)
drainLines(buffer, delivered) ==
    IF FirstIn(buffer, {"\n"}, 1) = 0
    THEN [buffer |-> buffer, delivered |-> delivered]
    ELSE drainLines(
             SubSeq(buffer, FirstIn(buffer, {"\n"}, 1) + 1, Len(buffer)),
             deliverLine(delivered,
                         SubSeq(buffer, 1, FirstIn(buffer, {"\n"}, 1) - 1)))

onDataDroppingRest(buffer, delivered, chunk) ==
    [buffer |-> <<>>,
     delivered |-> drainLines(buffer \o chunk, delivered).delivered]

onData(buffer, delivered, chunk) == drainLines(buffer \o chunk, delivered)

onEnd(buffer, delivered) ==
    [buffer |-> buffer, delivered |-> deliverLine(delivered, buffer)]

(***************************************************************************)
(* The server: one request at a time; between two requests the operator    *)
(* may edit the policy file and other processes the file system            *)
(***************************************************************************)
Idle == [op |-> "idle"]

\* no request has been answered yet
NoPrev == [op |-> "none"]

\* the paths a caller asks for
RequestPaths ==
    {P_ab,
     P_ab \o <<"/", "f">>,
     P_ab \o <<"/", "n">>,
     P_ab \o <<"/", ".", "/", "n">>,
     P_ab \o <<"/", "s", "/", "s">>,
     P_ab \o <<"/", "s", "/", "g">>,
     P_ab \o <<"/", "s", "/", "n">>,
     P_ab \o <<"/", ".", ".", "/", ".", ".", "/", "e", "/", "s">>,
     P_ab \o <<"/", ".", ".", "/", "b", "c", "/", "g">>,
     P_abc \o <<"/", "g">>,
     P_abc \o <<"/", "n">>,
     P_ad \o <<"/", "g">>,
     P_e \o <<"/", "s">>,
     P_e \o <<"/", "n">>,
     <<"b", "/", "f">>,
     <<"b", "/", "n">>,
     <<".", ".", "/", "e", "/", "s">>}

\* the command names a caller asks for
RequestCommands ==
    {C_ls, C_cat, C_grep, C_echo, C_su, C_dd, C_nc,
     <<>>,
     <<" ">>,
     C_ls \o <<" ", "-", "l">>,
     <<" ">> \o C_echo \o <<" ", "\t", "x", " ">>,
     C_ls \o <<"\t", "x">>,
     C_ls \o <<" ", "'", "a", " ", "b", "'">>,
     C_nc \o <<" ">> \o C_ls}

ArgValues == {<<"x">>, <<"a", " ", "b">>}

RECURSIVE SeqsUpTo(_, _)
SeqsUpTo(S, n) ==
    IF n = 0 THEN {<<>>}
    ELSE LET shorter == SeqsUpTo(S, n - 1) IN
         shorter \cup {Append(q, x) : q \in shorter, x \in S}

RequestArgs == SeqsUpTo(ArgValues, MaxArgs)

Init ==
    /\ fs \in [DOMAIN MutableEntries -> UNION {MutableEntries[n] : n \in DOMAIN MutableEntries}]
    /\ \A n \in DOMAIN MutableEntries : fs[n] \in MutableEntries[n]
    /\ configFile \in ConfigFiles
    /\ isWindows \in BOOLEAN
    /\ last = Idle
    /\ prev = NoPrev
    /\ reader = NewReader

\* another process creates, replaces or removes an entry
EditFile(n, e) ==
    /\ last.op = "idle"
    /\ e # fs[n]
    /\ fs' = [fs EXCEPT ![n] = e]
    /\ UNCHANGED <<configFile, isWindows, last, prev, reader>>

\* the operator writes, breaks or removes ~/.mcp-cmdex.toml
EditConfig(cf) ==
    /\ last.op = "idle"
    /\ cf # configFile
    /\ configFile' = cf
    /\ UNCHANGED <<fs, isWindows, last, prev, reader>>

ValidatePath(p) ==
    /\ last.op = "idle"
    /\ last' = [op |-> "validatePath", path |-> p,
                result |-> validatePath(configFile, fs, p)]
    /\ UNCHANGED <<fs, configFile, isWindows, prev, reader>>

IsCommandAllowed(c) ==
    /\ last.op = "idle"
    /\ last' = [op |-> "isCommandAllowed", command |-> c,
                result |-> isCommandAllowed(c, ALLOWED_COMMANDS, configFile)]
    /\ UNCHANGED <<fs, configFile, isWindows, prev, reader>>

\* the execute_command tool: executeCommand with ALLOWED_COMMANDS
ExecuteCommand(c, a, outcome) ==
    /\ last.op = "idle"
    /\ last' = [op |-> "executeCommand", commandName |-> c, args |-> a,
                result |-> executeCommand(c, a, ALLOWED_COMMANDS, configFile,
                                          isWindows, outcome)]
    /\ UNCHANGED <<fs, configFile, isWindows, prev, reader>>

\* the paths of the requests for the tools with one path
ToolPaths ==
    {P_ab \o <<"/", "f">>, P_ab \o <<"/", "s">>, P_ab \o <<"/", "n">>,
     <<"b", "/", "f">>,
     P_ab \o <<"/", "s", "/", "g">>,
     P_abc \o <<"/", "g">>, P_ad \o <<"/", "g">>, P_e \o <<"/", "s">>}

\* the sources and the destinations of the requests for the tools with two
SourcePaths ==
    {P_ab \o <<"/", "f">>, P_ad \o <<"/", "g">>, P_e \o <<"/", "s">>}

DestinationPaths ==
    {P_ab \o <<"/", "f">>, P_ab \o <<"/", "s">>, P_ab \o <<"/", "n">>,
     P_e \o <<"/", "n">>}

\* the recursive option exists for create_directory and remove_directory
RecursiveChoices(tool) ==
    IF tool \in {"create_directory", "remove_directory"} THEN BOOLEAN
    ELSE {FALSE}

\* a request for a file or directory tool; before is the tree as the
\* handler found it
FileTool(tool, paths, recursive) ==
    /\ last.op = "idle"
    /\ last' = [op |-> "fileTool", tool |-> tool, paths |-> paths,
                recursive |-> recursive, before |-> fs,
                result |-> [x \in {"result", "code", "io"}
                               |-> fileTool(configFile, fs, tool, paths,
                                            recursive)[x]]]
    /\ fs' = fileTool(configFile, fs, tool, paths, recursive).fs
    /\ UNCHANGED <<configFile, isWindows, prev, reader>>

OpenConfigFile ==
    /\ last.op = "idle"
    /\ last' = [op |-> "openConfigFile", result |-> openConfigFile(isWindows)]
    /\ UNCHANGED <<fs, configFile, isWindows, prev, reader>>

ListAllowedCommands ==
    /\ last.op = "idle"
    /\ last' = [op |-> "listAllowedCommands",
                result |-> listAllowedCommands(configFile)]
    /\ UNCHANGED <<fs, configFile, isWindows, prev, reader>>

\* the answer is sent and the server waits for the next request
Respond ==
    /\ last.op # "idle"
    /\ last' = Idle
    /\ UNCHANGED <<fs, configFile, isWindows, prev, reader>>

Next ==
    \/ \E n \in DOMAIN MutableEntries : \E e \in MutableEntries[n] : EditFile(n, e)
    \/ \E cf \in ConfigFiles : EditConfig(cf)
    \/ \E p \in RequestPaths : ValidatePath(p)
    \/ \E c \in RequestCommands : IsCommandAllowed(c)
    \/ \E c \in RequestCommands : \E a \in RequestArgs :
           \E outcome \in ProcessOutcomes : ExecuteCommand(c, a, outcome)
    \/ \E tool \in SinglePathTools : \E p \in ToolPaths :
           \E recursive \in RecursiveChoices(tool) :
               FileTool(tool, <<p>>, recursive)
    \/ \E tool \in TwoPathTools : \E s \in SourcePaths :
           \E d \in DestinationPaths : FileTool(tool, <<s, d>>, FALSE)
    \/ OpenConfigFile
    \/ ListAllowedCommands
    \/ Respond

Spec == Init /\ [][Next]_vars

(***************************************************************************)
(* The server with a record of the request answered before: policy edits   *)
(* between requests, on a tree without symbolic links                      *)
(***************************************************************************)
ReloadPaths ==
    {P_ab \o <<"/", "f">>,
     P_ab \o <<"/", "n">>,
     P_abc \o <<"/", "g">>,
     P_ad \o <<"/", "g">>,
     P_e \o <<"/", "s">>}

ReloadCommands == {C_ls, C_echo, C_su, C_dd, C_nc}

\* what the request in last asked about, and whether it was approved
lastRequest ==
    IF last.op = "validatePath" THEN last.path
    ELSE IF last.op = "isCommandAllowed" THEN last.command
    ELSE last.commandName

lastApproved ==
    IF last.op = "validatePath" THEN last.result.kind = "ok"
    ELSE IF last.op = "isCommandAllowed" THEN last.result
    ELSE last.result.invoked # <<>>

InitReload ==
    /\ fs = (N_abf :> FileEntry) @@ (N_abs :> NoEntry)
    /\ configFile \in ConfigFiles
    /\ isWindows = FALSE
    /\ last = Idle
    /\ prev = NoPrev
    /\ reader = NewReader

\* the answer is sent; the request, the policy file it was decided under
\* and the decision are remembered
RespondRemembering ==
    /\ last.op # "idle"
    /\ prev' = [op |-> last.op, request |-> lastRequest,
                configFile |-> configFile, approved |-> lastApproved]
    /\ last' = Idle
    /\ UNCHANGED <<fs, configFile, isWindows, reader>>

NextReload ==
    \/ \E cf \in ConfigFiles : EditConfig(cf)
    \/ \E p \in ReloadPaths : ValidatePath(p)
    \/ \E c \in ReloadCommands : IsCommandAllowed(c)
    \/ \E c \in ReloadCommands : ExecuteCommand(c, <<>>, "exit0")
    \/ RespondRemembering

SpecReload == InitReload /\ [][NextReload]_vars

(***************************************************************************)
(* read_file on a file that was approved: its content and the range        *)
(***************************************************************************)
Contents == SeqsUpTo({"a", "b", "\n"}, MaxContent)

digit(n) == <<Digits[n + 1]>>

RangeStrs ==
    {[present |-> FALSE, text |-> <<>>], [present |-> TRUE, text |-> <<>>],
     [present |-> TRUE, text |-> <<":">>], [present |-> TRUE, text |-> <<"x">>]}
    \cup {[present |-> TRUE, text |-> digit(n) \o <<":">> \o digit(m)] :
              n \in 0..MaxIndex, m \in 0..MaxIndex}
    \cup {[present |-> TRUE, text |-> digit(n) \o <<":">>] : n \in 0..MaxIndex}
    \cup {[present |-> TRUE, text |-> <<":">> \o digit(m)] : m \in 0..MaxIndex}
    \cup {[present |-> TRUE, text |-> digit(n)] : n \in 0..MaxIndex}

InitRange ==
    /\ fs = (N_abf :> FileEntry) @@ (N_abs :> NoEntry)
    /\ configFile = [state |-> "absent", config |-> DefaultConfig]
    /\ isWindows = FALSE
    /\ last = Idle
    /\ prev = NoPrev
    /\ reader = NewReader

ReadRange(content, rangeStr) ==
    /\ last.op = "idle"
    /\ last' = [op |-> "readRange", content |-> content, range |-> rangeStr,
                result |-> selectedLines(content, rangeStr)]
    /\ UNCHANGED <<fs, configFile, isWindows, prev, reader>>

NextRange ==
    \/ \E content \in Contents : \E rangeStr \in RangeStrs :
           ReadRange(content, rangeStr)
    \/ Respond

SpecRange == InitRange /\ [][NextRange]_vars

(***************************************************************************)
(* A handler in two steps, validatePath and then the call of the file      *)
(* API, with another process that changes the tree between the two         *)
(***************************************************************************)
RacePaths(tool) ==
    IF tool \in TwoPathTools
    THEN {<<s, d>> : s \in SourcePaths, d \in DestinationPaths}
    ELSE {<<p>> : p \in ToolPaths}

InitRace ==
    /\ fs \in [DOMAIN MutableEntries -> UNION {MutableEntries[n] : n \in DOMAIN MutableEntries}]
    /\ \A n \in DOMAIN MutableEntries : fs[n] \in MutableEntries[n]
    /\ configFile \in
         {[state |-> "ok",
           config |-> [allowedDirectories |-> d, hasAllowedCommands |-> FALSE,
                       allowedCommands |-> <<>>]] : d \in {<<P_ab>>, <<P_ab, P_ad>>}}
    /\ isWindows = FALSE
    /\ last = Idle
    /\ prev = NoPrev
    /\ reader = NewReader

\* the awaits of validatePath have resolved for every path argument; valid
\* holds the returned paths, before the tree as validatePath saw it
AwaitValidatePath(tool, paths) ==
    /\ last.op = "idle"
    /\ last' = IF \E i \in 1..Len(paths) :
                      validatePath(configFile, fs, paths[i]).kind = "error"
               THEN [op |-> "denied", tool |-> tool, paths |-> paths]
               ELSE [op |-> "validated", tool |-> tool, paths |-> paths,
                     valid |-> [i \in 1..Len(paths)
                                   |-> validatePath(configFile, fs, paths[i]).path],
                     before |-> fs]
    /\ UNCHANGED <<fs, configFile, isWindows, prev, reader>>

\* another process changes an entry while the handler is suspended
EditFileMeanwhile(n, e) ==
    /\ last.op = "validated"
    /\ fs = last.before
    /\ e # fs[n]
    /\ fs' = [fs EXCEPT ![n] = e]
    /\ UNCHANGED <<configFile, isWindows, last, prev, reader>>

\* where the calls of a tool go in the tree f: for every path of every
\* call the entry the system call works on
accessTargets(f, calls) ==
    [k \in 1..Len(calls)
        |-> [j \in 1..Len(calls[k].paths)
                |-> osTarget(f, calls[k].paths[j],
                             calls[k].name \notin {"remove", "rename"})]]

\* the handler goes on: the calls of the file API on the returned paths
AwaitFileApi ==
    /\ last.op = "validated"
    /\ last' = [op |-> "accessed", tool |-> last.tool, paths |-> last.paths,
                valid |-> last.valid, before |-> last.before,
                targets |-> accessTargets(fs, toolCalls(last.tool, last.valid)),
                io |-> runCalls(fs, toolCalls(last.tool, last.valid),
                                FALSE, <<>>).io]
    /\ fs' = runCalls(fs, toolCalls(last.tool, last.valid), FALSE, <<>>).fs
    /\ UNCHANGED <<configFile, isWindows, prev, reader>>

NextRace ==
    \/ \E tool \in {"read_file", "write_file", "rename_directory"} : \E paths \in RacePaths(tool) :
           AwaitValidatePath(tool, paths)
    \/ \E n \in DOMAIN MutableEntries : \E e \in MutableEntries[n] :
           EditFileMeanwhile(n, e)
    \/ AwaitFileApi
    \/ Respond

SpecRace == InitRace /\ [][NextRace]_vars

(***************************************************************************)
(* The two servers side by side: the same execute_command request is given *)
(* to the single-file server and to the server that calls executeCommand   *)
(***************************************************************************)
InitBoth ==
    /\ fs = (N_abf :> NoEntry) @@ (N_abs :> NoEntry)
    /\ configFile \in ConfigFiles
    /\ isWindows \in BOOLEAN
    /\ last = Idle
    /\ prev = NoPrev
    /\ reader = NewReader

ExecuteCommandBoth(c, a, outcome) ==
    /\ last.op = "idle"
    /\ last' = [op |-> "executeCommandBoth", commandName |-> c, args |-> a,
                refactored |-> executeCommand(c, a, ALLOWED_COMMANDS,
                                              configFile, isWindows, outcome),
                inline |-> inlineExecuteCommand(c, a, configFile, isWindows,
                                                outcome)]
    /\ UNCHANGED <<fs, configFile, isWindows, prev, reader>>

NextBoth ==
    \/ \E cf \in ConfigFiles : EditConfig(cf)
    \/ \E c \in RequestCommands : \E a \in RequestArgs :
           \E outcome \in ProcessOutcomes : ExecuteCommandBoth(c, a, outcome)
    \/ Respond

SpecBoth == InitBoth /\ [][NextBoth]_vars

(***************************************************************************)
(* The reader, chunk by chunk                                              *)
(***************************************************************************)
LineTexts ==
    {<<>>, <<" ">>, <<"7">>, <<" ", "1", "2", "\t">>, <<"x">>,
     <<"n", "u", "l", "l">>, <<"1", " ", "1">>}

RECURSIVE InputsOf(_)
InputsOf(n) ==
    IF n = 0 THEN {<<>>}
    ELSE InputsOf(n - 1)
         \cup {t \o <<"\n">> \o rest : t \in LineTexts, rest \in InputsOf(n - 1)}
         \cup {t : t \in LineTexts}

InitReader ==
    /\ fs = (N_abf :> NoEntry) @@ (N_abs :> NoEntry)
    /\ configFile = [state |-> "absent", config |-> DefaultConfig]
    /\ isWindows = FALSE
    /\ last = Idle
    /\ prev = NoPrev
    /\ reader \in {[NewReader EXCEPT !.pending = input] : input \in InputsOf(MaxLines)}

\* stream 'data': the next k characters arrive as one chunk
Data(k) ==
    /\ ~reader.ended
    /\ k <= Len(reader.pending)
    /\ reader' =
         [buffer |-> onData(reader.buffer, reader.delivered,
                            SubSeq(reader.pending, 1, k)).buffer,
          delivered |-> onData(reader.buffer, reader.delivered,
                               SubSeq(reader.pending, 1, k)).delivered,
          consumed |-> reader.consumed \o SubSeq(reader.pending, 1, k),
          pending |-> SubSeq(reader.pending, k + 1, Len(reader.pending)),
          ended |-> FALSE]
    /\ UNCHANGED <<fs, configFile, isWindows, last, prev>>

\* stream 'end', after the last chunk
End ==
    /\ ~reader.ended
    /\ reader.pending = <<>>
    /\ reader' =
         [reader EXCEPT
              !.delivered = onEnd(reader.buffer, reader.delivered).delivered,
              !.ended = TRUE]
    /\ UNCHANGED <<fs, configFile, isWindows, last, prev>>

NextReader ==
    \/ \E k \in 1..MaxChunk : Data(k)
    \/ End

SpecReader == InitReader /\ [][NextReader]_vars

(***************************************************************************)
(* The stdio server, message by message                                    *)
(***************************************************************************)
MessageParams ==
    {[present |-> FALSE, name |-> "undefined"],
     [present |-> TRUE, name |-> "undefined"],
     [present |-> TRUE, name |-> ""],
     [present |-> TRUE, name |-> HELLO],
     [present |-> TRUE, name |-> "other"]}

Messages ==
    [jsonrpc : {JSONRPC_2_0, "2", "undefined"},
     id : {"undefined", "null", "0", "1", "\"a\"", "false"},
     method : {"tools/list", "tool/exec", "/helloworld", "invalid_method",
               "undefined"},
     params : MessageParams]

InitRpc ==
    /\ fs = (N_abf :> NoEntry) @@ (N_abs :> NoEntry)
    /\ configFile = [state |-> "absent", config |-> DefaultConfig]
    /\ isWindows = FALSE
    /\ last = Idle
    /\ prev = NoPrev
    /\ reader = NewReader

HandleMessage(message) ==
    /\ last.op = "idle"
    /\ last' = [op |-> "handleMessage", message |-> message,
                responses |-> handleMessage(message)]
    /\ UNCHANGED <<fs, configFile, isWindows, prev, reader>>

NextRpc ==
    \/ \E message \in Messages : HandleMessage(message)
    \/ Respond

SpecRpc == InitRpc /\ [][NextRpc]_vars

(***************************************************************************)
(* Vocabulary of the properties                                            *)
(***************************************************************************)
\* the directory components of an absolute path, "." and ".." resolved
Components(p) == normalizeSegs(SplitOn(p, SEP), <<>>, FALSE)

\* p is d or lies below d: d's components are the first components of p
Inside(p, d) ==
    LET pc == Components(p)
        dc == Components(d)
    IN Len(dc) <= Len(pc) /\ SubSeq(pc, 1, Len(dc)) = dc

InsideSome(dirs, p) == \E i \in 1..Len(dirs) : Inside(p, dirs[i])

PolicyLoaded == configFile.state \in {"ok", "absent"}

PolicyDirs ==
    IF configFile.state = "ok" THEN configFile.config.allowedDirectories
    ELSE <<>>

\* the command names of all categories of the policy
PolicyCommands ==
    IF configFile.state = "ok" /\ configFile.config.hasAllowedCommands
    THEN UNION {{configFile.config.allowedCommands[i].commands[j] :
                    j \in 1..Len(configFile.config.allowedCommands[i].commands)} :
                i \in 1..Len(configFile.config.allowedCommands)}
    ELSE {}

Validated == last.op = "validatePath"

\* of the request just answered: the absolute path, its lexical form, its
\* real path and the real path of its parent directory
ReqAbsolute == absoluteOf(last.path)
ReqLexical == normalize(ReqAbsolute)
ReqReal == realPath(fs, ReqAbsolute)
ReqRealParent == realPath(fs, dirname(ReqAbsolute))

(***************************************************************************)
(* C1..C10                                                                 *)
(***************************************************************************)
\* C1 (as claimed): a path that is lexically inside an allowed directory
\* and whose real path is outside every allowed directory is denied.  The
\* real path is taken to be outside when no allowed directory is even a
\* string prefix of it, so that the statement does not depend on C3.
C1_SymlinkEscapeDenied ==
    (/\ Validated /\ PolicyLoaded
     /\ InsideSome(PolicyDirs, ReqLexical)
     /\ ~ReqReal.threw
     /\ ~isInAllowedDirectories(PolicyDirs, normalize(ReqReal.path)))
    => last.result.kind = "error"

\* C2 (as claimed): a path that is lexically outside every allowed
\* directory is denied, whatever the file system holds.
C2_OutsideDenied ==
    (Validated /\ PolicyLoaded /\ ~InsideSome(PolicyDirs, ReqLexical))
    => last.result.kind = "error"

\* C3 (as claimed): the allowed-root test matches on component boundaries:
\* an approval implies that the lexical path is inside an allowed
\* directory, that a returned real path is inside one, and that the real
\* parent of an approved new leaf is inside one.
C3_ComponentBoundary ==
    (Validated /\ PolicyLoaded /\ last.result.kind = "ok")
    => /\ InsideSome(PolicyDirs, ReqLexical)
       /\ (~ReqReal.threw /\ last.result.path = ReqReal.path)
          => InsideSome(PolicyDirs, ReqReal.path)
       /\ ReqReal.threw
          => (~ReqRealParent.threw
              /\ InsideSome(PolicyDirs, ReqRealParent.path))

\* C4 (as claimed): a path lexically inside an allowed directory D is
\* approved with a canonical path that is inside the same D.  Stated for
\* the paths that exist and whose real path is inside an allowed directory,
\* where C1 and C3 play no part.
C4_CanonicalInsideSameRoot ==
    (/\ Validated /\ PolicyLoaded
     /\ ~ReqReal.threw
     /\ InsideSome(PolicyDirs, ReqReal.path))
    => \A i \in 1..Len(PolicyDirs) :
           Inside(ReqLexical, PolicyDirs[i])
           => /\ last.result.kind = "ok"
              /\ realPath(fs, last.result.path)
                     = [threw |-> FALSE, path |-> last.result.path]
              /\ Inside(last.result.path, PolicyDirs[i])

\* C4 (amended): an existing path that is lexically inside an allowed
\* directory and whose real path is inside an allowed directory (the same
\* or another one) is approved with its real path.
C4_RealPathInsideSomeRoot ==
    (/\ Validated /\ PolicyLoaded
     /\ InsideSome(PolicyDirs, ReqLexical)
     /\ ~ReqReal.threw
     /\ InsideSome(PolicyDirs, ReqReal.path))
    => /\ last.result = Approved(ReqReal.path)
       /\ InsideSome(PolicyDirs, last.result.path)

\* a symbolic link in one allowed directory to a file of another one was
\* approved with a path outside the directory it was asked in
C4_Witness ==
    /\ Validated /\ PolicyLoaded
    /\ last.result.kind = "ok"
    /\ last.result.path # ReqAbsolute
    /\ \E i \in 1..Len(PolicyDirs) :
           Inside(ReqLexical, PolicyDirs[i])
           /\ ~Inside(last.result.path, PolicyDirs[i])
    /\ InsideSome(PolicyDirs, last.result.path)

C6_ParentDenialsDistinct ==
    (/\ Validated /\ PolicyLoaded
     /\ InsideSome(PolicyDirs, ReqLexical)
     /\ ReqReal.threw)
    => /\ ReqRealParent.threw
          => last.result = Denied("parentDirectoryMissing")
       /\ (~ReqRealParent.threw
           /\ ~InsideSome(PolicyDirs, ReqRealParent.path))
          => (last.result.kind = "error"
              /\ last.result.error # "parentDirectoryMissing")

\* C7: while the policy file is unreadable or malformed, every path is
\* denied with the policy-load failure.
C7_PolicyLoadFailureDenies ==
    (Validated /\ configFile.state \in {"unreadable", "malformed"})
    => last.result = Denied("configReadFailed")

\* a path that would be a new file of an allowed directory was asked for
\* while the policy file was malformed
C7_Witness ==
    /\ Validated
    /\ configFile.state = "malformed"
    /\ last.path = P_ab \o <<"/", "n">>
    /\ last.result.kind = "error"

\* C8: while the policy file is absent, readConfig returns empty
\* allowlists without an error, every path is denied as outside the
\* allowed directories, and exactly the compiled-in commands are approved.
C8_AbsentPolicyIsEmpty ==
    configFile.state = "absent"
    => /\ LET rc == readConfig(configFile) IN
          /\ ~rc.threw
          /\ rc.config.allowedDirectories = <<>>
          /\ (~rc.config.hasAllowedCommands \/ rc.config.allowedCommands = <<>>)
       /\ Validated => last.result = Denied("outsideAllowed")
       /\ last.op = "isCommandAllowed"
          => (last.result <=> last.command \in ALLOWED_COMMANDS)
       /\ last.op = "executeCommand"
          => (last.result.invoked # <<>>
              <=> last.result.checked \in ALLOWED_COMMANDS)

\* a compiled-in command was run while the policy file was absent
C8_Witness ==
    /\ configFile.state = "absent"
    /\ last.op = "executeCommand"
    /\ last.commandName = C_grep
    /\ last.result.invoked # <<>>

\* C9: with a policy that loads, a command is approved exactly if it is
\* in the compiled-in set or in the command list of some category.
C9_ApprovedIffInUnion ==
    PolicyLoaded
    => /\ last.op = "isCommandAllowed"
          => (last.result
              <=> last.command \in ALLOWED_COMMANDS \cup PolicyCommands)
       /\ last.op = "executeCommand"
          => (last.result.invoked # <<>>
              <=> last.result.checked \in ALLOWED_COMMANDS \cup PolicyCommands)

\* a command listed in the second category only was approved
C9_Witness ==
    /\ configFile.state = "ok"
    /\ last.op = "isCommandAllowed"
    /\ last.command = C_dd
    /\ last.result

\* C10: a compiled-in command is approved with any arguments and in any
\* state of the policy file, and the runner is called once with that
\* command and those arguments.
C10_BaselineInvokedUnchanged ==
    (last.op = "executeCommand" /\ last.commandName \in ALLOWED_COMMANDS)
    => last.result.invoked
           = <<[command |-> last.commandName, args |-> last.args,
                isWindows |-> isWindows]>>

\* a compiled-in command was run with arguments while the policy file
\* could not be read
C10_Witness ==
    /\ last.op = "executeCommand"
    /\ configFile.state = "unreadable"
    /\ last.commandName = C_cat
    /\ Len(last.args) > 0
    /\ last.result.invoked # <<>>

(***************************************************************************)
(* Vocabulary of the command properties                                    *)
(***************************************************************************)
\* the maximal runs of characters of s that are not white space, in order
RECURSIVE TokensFrom(_, _, _, _)
TokensFrom(s, i, cur, acc) ==
    IF i > Len(s) THEN (IF cur = <<>> THEN acc ELSE Append(acc, cur))
    ELSE IF s[i] \in WhiteSpace
         THEN TokensFrom(s, i + 1, <<>>,
                         IF cur = <<>> THEN acc ELSE Append(acc, cur))
         ELSE TokensFrom(s, i + 1, Append(cur, s[i]), acc)

Tokens(s) == TokensFrom(s, 1, <<>>, <<>>)

HasWhiteSpace(s) == \E i \in 1..Len(s) : s[i] \in WhiteSpace

IsToken(s) == Len(s) > 0 /\ ~HasWhiteSpace(s)

PolicyLoadFailed == configFile.state \in {"unreadable", "malformed"}

RanCommand == last.op = "executeCommand"

\* the request just answered reached the runner
Invoked == RanCommand /\ last.result.invoked # <<>>

(***************************************************************************)
(* C11..C20                                                                *)
(***************************************************************************)
\* C11: a command that is not compiled in is approved when the policy
\* loads and lists it, and is denied whenever loading the policy fails: a
\* load failure never approves a command outside the compiled-in set.
C11_PolicyOnlyCommandFollowsLoad ==
    /\ (last.op = "isCommandAllowed" /\ last.command \notin ALLOWED_COMMANDS)
       => /\ (last.command \in PolicyCommands => last.result)
          /\ (PolicyLoadFailed => ~last.result)
    /\ (RanCommand /\ last.result.checked \notin ALLOWED_COMMANDS)
       => /\ (last.result.checked \in PolicyCommands => Invoked)
          /\ (PolicyLoadFailed => ~Invoked)

\* a command that policies list was denied while the policy file was
\* malformed
C11_Witness ==
    /\ configFile.state = "malformed"
    /\ last.op = "isCommandAllowed"
    /\ last.command = C_echo
    /\ ~last.result

\* C12: when the effective command is in neither the compiled-in set nor
\* the loaded policy, the request fails with McpError(InvalidRequest) and
\* neither the runner is called nor a process started.
C12_DeniedNeverRuns ==
    (RanCommand
     /\ last.result.checked \notin ALLOWED_COMMANDS \cup PolicyCommands)
    => /\ last.result.result = "McpError"
       /\ last.result.code = "InvalidRequest"
       /\ last.result.invoked = <<>>
       /\ last.result.launched = <<>>

\* a command line whose first token is not allowed was rejected although
\* a later token is a compiled-in command
C12_Witness ==
    /\ RanCommand
    /\ last.commandName = C_nc \o <<" ">> \o C_ls
    /\ last.result.checked = C_nc
    /\ last.result.code = "InvalidRequest"
    /\ last.result.invoked = <<>>

\* C13: the runner is called at most once, with the very token that was
\* checked in the same request, and that token is in the compiled-in set
\* or in the loaded policy; a request string of several tokens is never
\* what the runner gets.
C13_RunnerGetsCheckedToken ==
    Invoked
    => /\ Len(last.result.invoked) = 1
       /\ last.result.invoked[1].command = last.result.checked
       /\ last.result.checked \in ALLOWED_COMMANDS \cup PolicyCommands
       /\ (Includes(last.commandName, " ")
           => /\ Tokens(last.commandName) # <<>>
              /\ last.result.checked = Tokens(last.commandName)[1])
       /\ (~Includes(last.commandName, " ")
           => last.result.checked = last.commandName)

\* a command line with padding ran as its first token, which only the
\* policy allows
C13_Witness ==
    /\ Invoked
    /\ last.commandName = <<" ">> \o C_echo \o <<" ", "\t", "x", " ">>
    /\ last.result.invoked[1].command = C_echo
    /\ C_echo \in PolicyCommands

\* C14: a command and arguments that are tokens (not empty, free of white
\* space) have the same outcome whether the arguments are passed
\* separately or the whole is passed as one line joined by spaces: the
\* same decision, the same call of the runner, the same process.
C14_LineEqualsNameWithArgs ==
    (/\ RanCommand
     /\ IsToken(last.commandName)
     /\ \A i \in 1..Len(last.args) : IsToken(last.args[i]))
    => executeCommand(JoinWith(<<last.commandName>> \o last.args, " "),
                      <<>>, ALLOWED_COMMANDS, configFile, isWindows,
                      IF last.result.exit = "none" THEN "exit0"
                      ELSE last.result.exit)
           = last.result

\* a command ran with a separate token argument
C14_Witness ==
    /\ Invoked
    /\ last.commandName = C_ls
    /\ last.args = << <<"x">> >>
    /\ last.result.invoked[1].args = << <<"x">> >>

\* C15 (as claimed): a command name that contains white space of any kind
\* and at least one token is split, and its first token is the command
\* that is checked.
C15_AnyWhiteSpaceSplits ==
    (/\ RanCommand
     /\ HasWhiteSpace(last.commandName)
     /\ Tokens(last.commandName) # <<>>)
    => last.result.checked = Tokens(last.commandName)[1]

C17_LaunchPerPlatform ==
    Invoked
    => /\ Len(last.result.launched) = 1
       /\ LET call == last.result.invoked[1]
              process == last.result.launched[1]
          IN /\ call.isWindows = isWindows
             /\ isWindows
                => /\ process.image = <<"c", "m", "d", ".", "e", "x", "e">>
                   /\ process.args
                          = << <<"/", "c">>, call.command >> \o call.args
             /\ ~isWindows
                => /\ process.image = call.command
                   /\ process.args = call.args

\* elsewhere than on Windows a command with an argument was started as
\* itself
C17_Witness ==
    /\ Invoked
    /\ ~isWindows
    /\ last.commandName = C_cat
    /\ last.args = << <<"x">> >>
    /\ last.result.launched = <<[image |-> C_cat, args |-> << <<"x">> >>]>>

\* C18 (as claimed): a command that cannot be started or that exits with
\* a non-zero status yields an McpError, and is started once.
C18_EveryFailureIsMcpError ==
    (Invoked
     /\ last.result.exit \in {"notFound", "permissionDenied", "exitNonZero"})
    => /\ last.result.result = "McpError"
       /\ Len(last.result.launched) = 1

\* C18 (amended): a command that cannot be started yields
\* McpError(InternalError); one that runs yields its output and error
\* text as a result, whatever its exit status; it is started once.
C18_LaunchFailureIsMcpError ==
    Invoked
    => /\ Len(last.result.invoked) = 1
       /\ Len(last.result.launched) = 1
       /\ last.result.exit \in {"notFound", "permissionDenied"}
          => /\ last.result.result = "McpError"
             /\ last.result.code = "InternalError"
       /\ last.result.exit \in {"exit0", "exitNonZero"}
          => /\ last.result.result = "ok"
             /\ last.result.code = "none"

\* a command that exited with a non-zero status was answered with a
\* result
C18_Witness ==
    /\ Invoked
    /\ last.result.exit = "exitNonZero"
    /\ last.result.result = "ok"

\* C19: every decision follows the policy file as it is at the time of
\* the request, whatever was asked and decided before: a path under no
\* directory of the current policy is denied and one inside a directory
\* of the current policy is approved; a command that is not compiled in
\* is approved exactly if the current policy lists it; and the same
\* request under the same policy file gets the same decision.
C19_DecisionsFollowCurrentPolicy ==
    /\ last.op = "validatePath"
       => /\ ~isInAllowedDirectories(PolicyDirs, ReqLexical)
             => last.result.kind = "error"
          /\ InsideSome(PolicyDirs, ReqLexical) => last.result.kind = "ok"
    /\ (last.op = "isCommandAllowed" /\ last.command \notin ALLOWED_COMMANDS)
       => (last.result <=> last.command \in PolicyCommands)
    /\ (RanCommand /\ last.commandName \notin ALLOWED_COMMANDS)
       => (Invoked <=> last.commandName \in PolicyCommands)
    /\ (/\ last.op # "idle"
        /\ prev.op = last.op
        /\ prev.request = lastRequest
        /\ prev.configFile = configFile)
       => prev.approved = lastApproved

\* a path that was approved is denied on the next request, after its
\* directory was taken out of the policy
C19_Witness ==
    /\ last.op = "validatePath"
    /\ prev.op = "validatePath"
    /\ prev.request = last.path
    /\ last.path = P_ad \o <<"/", "g">>
    /\ prev.approved
    /\ prev.configFile.state = "ok"
    /\ configFile.state = "ok"
    /\ last.result.kind = "error"

\* C20: a handler of a file or directory tool makes calls of the file API
\* only if validatePath approved every path argument of the request, and
\* then on the paths validatePath returned; if it denied one of them, no
\* call is made and the tree stays as it is.
C20_IoOnlyAfterApproval ==
    last.op = "fileTool"
    => LET v == [i \in 1..Len(last.paths)
                    |-> validatePath(configFile, last.before, last.paths[i])]
           io == last.result.io
           returned(i) == v[i].path
       IN /\ (\E i \in 1..Len(v) : v[i].kind = "error")
             => /\ io = <<>>
                /\ fs = last.before
                /\ last.result.result = "McpError"
          /\ io # <<>>
             => /\ \A i \in 1..Len(v) : v[i].kind = "ok"
                /\ Len(v) = 1
                   => Len(io) = 1 /\ io[1].paths = <<returned(1)>>
                /\ last.tool \in {"rename_directory", "move_file"}
                   => /\ Len(io) = 1
                      /\ io[1].paths = <<returned(1), returned(2)>>
                /\ last.tool = "copy_file"
                   => /\ io[1].paths = <<returned(1)>>
                      /\ Len(io) <= 2
                      /\ Len(io) = 2 => io[2].paths = <<returned(2)>>
          /\ fs # last.before => io # <<>>

\* a file was copied: both paths were approved, the source was read and
\* the destination written
C20_Witness ==
    /\ last.op = "fileTool"
    /\ last.tool = "copy_file"
    /\ last.paths = <<P_ad \o <<"/", "g">>, P_ab \o <<"/", "f">>>>
    /\ last.result.io
           = <<[name |-> "readFile", paths |-> <<P_ad \o <<"/", "g">>>>,
                done |-> TRUE],
               [name |-> "writeFile", paths |-> <<P_ab \o <<"/", "f">>>>,
                done |-> TRUE]>>

(***************************************************************************)
(* C21..C30                                                                *)
(***************************************************************************)
\* the command a started process runs: behind "cmd.exe /c" its second
\* argument, else the image
commandOf(process) ==
    IF process.image = CMD_EXE /\ Len(process.args) >= 2
       /\ process.args[1] = SLASH_C
    THEN process.args[2]
    ELSE process.image

\* the commands isCommandAllowed approved in the request just answered
ApprovedInRequest ==
    IF RanCommand
    THEN {last.result.checked} \cap (ALLOWED_COMMANDS \cup PolicyCommands)
    ELSE {}

\* C21 (as claimed): every process a handler starts, of execute_command or
\* of any other tool, runs a command that passed the allowlist check in
\* the same request.
C21_EveryLaunchChecked ==
    last.op \in {"executeCommand", "openConfigFile"}
    => \A k \in 1..Len(last.result.launched) :
           commandOf(last.result.launched[k]) \in ApprovedInRequest

\* the names of a category are pairwise different and ascending
StrictlySorted(commands) ==
    \A i \in 1..Len(commands) - 1 : precedes(commands[i], commands[i + 1])

Listed == last.op = "listAllowedCommands"

\* how often a name is listed in the whole output
timesListed(name) ==
    Cardinality({<<i, j>> \in (1..Len(last.result)) \X (1..4) :
                    /\ j <= Len(last.result[i].commands)
                    /\ last.result[i].commands[j] = name})

ListedNames ==
    UNION {{last.result[i].commands[j] : j \in 1..Len(last.result[i].commands)} :
           i \in 1..Len(last.result)}

\* C22 (as claimed): a command name is listed once in the whole output,
\* and the names of each category are sorted.
C22_ListedOnceOverall ==
    Listed
    => /\ \A name \in ListedNames : timesListed(name) = 1
       /\ \A i \in 1..Len(last.result) : StrictlySorted(last.result[i].commands)

\* the names the policy puts into a category
policyCategory(category) ==
    IF configFile.state = "ok" /\ configFile.config.hasAllowedCommands
    THEN UNION {{configFile.config.allowedCommands[i].commands[j] :
                    j \in 1..Len(configFile.config.allowedCommands[i].commands)} :
                i \in {k \in 1..Len(configFile.config.allowedCommands) :
                         configFile.config.allowedCommands[k].category = category}}
    ELSE {}

\* C22 (amended): every category is listed once; under it are the names
\* the policy puts into it (and, under the category without a name, the
\* compiled-in names), each once within the category and in ascending
\* order; a name of several categories is listed under each of them.
C22_ListedOncePerCategory ==
    Listed
    => /\ \A i, k \in 1..Len(last.result) :
              last.result[i].category = last.result[k].category => i = k
       /\ \A i \in 1..Len(last.result) :
              /\ StrictlySorted(last.result[i].commands)
              /\ {last.result[i].commands[j] :
                     j \in 1..Len(last.result[i].commands)}
                     = policyCategory(last.result[i].category)
                       \cup (IF last.result[i].category = ""
                             THEN ALLOWED_COMMANDS ELSE {})
       /\ ListedNames = ALLOWED_COMMANDS \cup PolicyCommands

\* a name of two categories is listed twice, and a name written twice in
\* one category once there
C22_Witness ==
    /\ Listed
    /\ Len(last.result) = 3
    /\ last.result[2] = [category |-> "custom", commands |-> <<C_echo, C_su>>]
    /\ last.result[3] = [category |-> "extra", commands |-> <<C_dd, C_ls, C_su>>]
    /\ timesListed(C_su) = 2

Handled == last.op = "handleMessage"

\* the message just handled is a JSON-RPC 2.0 request with an id
IsRequest ==
    /\ Handled
    /\ last.message.jsonrpc = "\"2.0\""
    /\ last.message.id \notin {"undefined", "null"}

\* C23: a JSON-RPC 2.0 request with an id gets exactly one response with
\* its id: the error -32601 if its method is none of tools/list, tool/exec
\* and /helloworld; a result for tools/list, for tool/exec of
\* mcp-cmdex/hello and for /helloworld.
C23_OneResponsePerRequest ==
    IsRequest
    => /\ last.message.method \notin {"tools/list", "tool/exec", "/helloworld"}
          => last.responses
                 = <<[jsonrpc |-> "\"2.0\"", id |-> last.message.id,
                      kind |-> "error", code |-> -32601, result |-> "none"]>>
       /\ (\/ last.message.method \in {"tools/list", "/helloworld"}
           \/ /\ last.message.method = "tool/exec"
              /\ last.message.params.present
              /\ last.message.params.name = "mcp-cmdex/hello")
          => /\ Len(last.responses) = 1
             /\ last.responses[1].kind = "result"
             /\ last.responses[1].id = last.message.id
             /\ last.responses[1].jsonrpc = "\"2.0\""

\* a request with the id 0 and an unknown method was answered with the
\* error -32601
C23_Witness ==
    /\ IsRequest
    /\ last.message.id = "0"
    /\ last.message.method = "invalid_method"
    /\ Len(last.responses) = 1
    /\ last.responses[1].code = -32601

\* a segment of the requested path is "." or ".."
HasDotSegment(p) ==
    \E i \in 1..Len(SplitOn(p, SEP)) : SplitOn(p, SEP)[i] \in {DOT, DOTDOT}

\* C24 (as claimed): a requested path with "." or ".." segments whose
\* string starts with an allowed directory but whose normal form is
\* outside every allowed directory is denied.
C24_DotSegmentsJudgedNormalized ==
    (/\ Validated
     /\ PolicyLoaded
     /\ HasDotSegment(last.path)
     /\ isInAllowedDirectories(PolicyDirs, ReqAbsolute)
     /\ ~InsideSome(PolicyDirs, ReqLexical))
    => last.result.kind = "error"

\* C25 (as claimed): create_directory with recursive = true for a path
\* inside an allowed directory whose parent directory does not exist
\* makes the directories and succeeds.
C25_RecursiveCreatesParents ==
    (/\ last.op = "fileTool"
     /\ last.tool = "create_directory"
     /\ last.recursive
     /\ PolicyLoaded
     /\ InsideSome(PolicyDirs, normalize(absoluteOf(last.paths[1])))
     /\ realPath(last.before, dirname(absoluteOf(last.paths[1]))).threw)
    => /\ last.result.result = "ok"
       /\ last.result.io # <<>>

LinesOfContent == SplitOn(last.content, "\n")

\* the lines n to m, both included, counted from 0
LinesThrough(n, m) ==
    JoinWith(SubSeq(LinesOfContent, n + 1,
                    IF m + 1 < Len(LinesOfContent) THEN m + 1
                    ELSE Len(LinesOfContent)), "\n")

\* C26 (as claimed): the range "n:m" selects the lines n to m, both
\* included and counted from 0, also for m = 0; "n:" the lines from n on,
\* ":m" the lines 0 to m; without a range the whole file is returned.
C26_RangeSelectsLines ==
    last.op = "readRange"
    => /\ ~last.range.present => last.result = last.content
       /\ \A n, m \in 0..MaxIndex :
              /\ (n <= m /\ last.range.text = digit(n) \o <<":">> \o digit(m))
                 => last.result = LinesThrough(n, m)
              /\ last.range.text = digit(n) \o <<":">>
                 => last.result = LinesThrough(n, Len(LinesOfContent))
              /\ last.range.text = <<":">> \o digit(m)
                 => last.result = LinesThrough(0, m)

\* the returned paths were, in the tree validatePath saw, entries under a
\* directory of the policy, by the test of the code itself
ApprovedWhereAllowed ==
    \A j \in 1..Len(last.valid) :
        /\ osTarget(last.before, last.valid[j], TRUE).ok
        /\ isInAllowedDirectories(
               PolicyDirs,
               PathOf(osTarget(last.before, last.valid[j], TRUE).node))

\* C27 (as claimed): also when another process changes the tree between
\* the approval of a path and the call of the file API, every entry a
\* handler works on is under an allowed directory at the time of the call.
C27_AccessInsideDespiteRace ==
    (last.op = "accessed" /\ ApprovedWhereAllowed)
    => \A k \in 1..Len(last.targets) : \A j \in 1..Len(last.targets[k]) :
           last.targets[k][j].ok
           => isInAllowedDirectories(PolicyDirs,
                                     PathOf(last.targets[k][j].node))

\* the lines of the text the stream has handed over: those ended by a
\* newline and, once the stream has ended, the rest
LinesRead ==
    IF reader.ended THEN SplitOn(reader.consumed, "\n")
    ELSE Front(SplitOn(reader.consumed, "\n"))

\* the values of the non-blank lines that parse, in the order of the lines
RECURSIVE ParsedOf(_)
ParsedOf(lines) ==
    IF Len(lines) = 0 THEN <<>>
    ELSE (IF \E i \in 1..Len(Head(lines)) : Head(lines)[i] \notin WhiteSpace
          THEN IF parseJson(Head(lines)).ok
               THEN <<parseJson(Head(lines)).json>> ELSE <<>>
          ELSE <<>>)
         \o ParsedOf(Tail(lines))

\* C28: however the input is cut into chunks, the messages delivered are
\* the values of the non-blank newline-delimited lines that parse as JSON,
\* each once and in order; an unterminated last line is delivered once when
\* the input ends; a line that does not parse, or whose handler throws,
\* takes nothing away from the lines after it.
C28_DeliveredAreParsedLines == reader.delivered = ParsedOf(LinesRead)

\* a line that does not parse and a value whose handler throws came before
\* a last line without newline, which was delivered when the input ended
C28_Witness ==
    /\ reader.ended
    /\ reader.consumed
         = <<"x", "\n", "n", "u", "l", "l", "\n", " ", "1", "2", "\t">>
    /\ reader.buffer = <<" ", "1", "2", "\t">>
    /\ Len(reader.delivered) = 2
    /\ reader.delivered[2] = [type |-> "number", value |-> 12]

\* C29: a command name that is empty or made of spaces only is denied by
\* executeCommand and the runner is not called, whatever the (non-empty)
\* names of the compiled-in set and of the policy and whatever the explicit
\* arguments.
C29_BlankNameDenied ==
    (RanCommand /\ \A i \in 1..Len(last.commandName) : last.commandName[i] = " ")
    => /\ last.result.result = "McpError"
       /\ last.result.code = "InvalidRequest"
       /\ last.result.invoked = <<>>
       /\ last.result.launched = <<>>

\* a name of one space was denied with an explicit argument, under a policy
\* that loads and lists commands
C29_Witness ==
    /\ RanCommand
    /\ last.commandName = <<" ">>
    /\ Len(last.args) = 1
    /\ PolicyCommands # {}
    /\ last.result.checked = Undefined
    /\ last.result.code = "InvalidRequest"
    /\ last.result.invoked = <<>>

\* C30: for a command name without a space the server that calls
\* executeCommand and the single-file server with the check written out in
\* the handler agree: the same decision, the same error on denial and on a
\* failed launch, the same process image and arguments, on Windows and
\* elsewhere, whether the policy loads or not.
C30_InlineAgreesWithRefactored ==
    (last.op = "executeCommandBoth" /\ ~Includes(last.commandName, " "))
    => /\ last.inline.result = last.refactored.result
       /\ last.inline.code = last.refactored.code
       /\ last.inline.checked = last.refactored.checked
       /\ last.inline.launched = last.refactored.launched
       /\ last.inline.exit = last.refactored.exit

\* a command that only the policy lists was launched through cmd.exe by
\* both servers, with an explicit argument
C30_Witness ==
    /\ last.op = "executeCommandBoth"
    /\ last.commandName = C_echo
    /\ Len(last.args) = 1
    /\ isWindows
    /\ last.inline.launched # <<>>
    /\ last.inline.launched[1].image = CMD_EXE
    /\ last.refactored.launched = last.inline.launched

====
